---- MODULE Spec2Model ----
(***************************************************************************)
(* Model of the two scripts of openclaw_WIFI_DEBUGGER:                     *)
(*   ssh-helper.py     main(): run one remote command over SSH and relay   *)
(*                     stdout, stderr and the exit status;                 *)
(*   add_key_nvram.py  check nvram sshd_authkeys for the public key and,   *)
(*                     if absent, append it to the authorized_keys files.  *)
(* Spec    is ssh-helper.py: one invocation of main().                     *)
(* SpecKey is add_key_nvram.py: NumRuns invocations against one router.    *)
(***************************************************************************)
EXTENDS Integers, Sequences, FiniteSets

VARIABLES
    \* ---- ssh-helper.py ----
    pc,            \* position in main()
    argc,          \* len(sys.argv)
    clientCreated, \* paramiko.SSHClient() was constructed
    connectCalls,  \* number of client.connect calls
    sessionOpen,   \* a connected session exists and was not closed
    everConnected, \* client.connect returned normally
    closed,        \* client.close() was called
    execCalls,     \* number of client.exec_command calls
    cmdRan,        \* exec_command returned normally: the remote command ran
    remoteOut,     \* bytes the remote command wrote to its stdout
    remoteErr,     \* bytes the remote command wrote to its stderr
    remoteStatus,  \* exit status of the remote command
    outRead,       \* stdout.read() returned (stream read to EOF)
    errRead,       \* stderr.read() returned (stream read to EOF)
    statusRead,    \* recv_exit_status() returned
    out,           \* local 'out' (decoded text, a sequence of code points)
    err,           \* local 'err'
    exit_code,     \* local 'exit_code'
    raised,        \* class of the exception raised inside the try block
    procStdout,    \* bytes the process wrote to its own stdout
    procStderr,    \* relayed bytes the process wrote to its own stderr
    diag,          \* diagnostic lines the process printed to stderr
    exitCode,      \* exit code of the process (NoExit while running)
    \* ---- add_key_nvram.py ----
    kpc,           \* position of each invocation of the script
    pubkey,        \* the public key (after strip())
    nvram,         \* output of 'nvram get sshd_authkeys' on the router
    jffsDir,       \* /jffs/.ssh exists
    jffsWritable,  \* /jffs can be written
    dropbearWritable, \* /etc/dropbear/authorized_keys can be appended to
    jffsKeys,      \* lines of /jffs/.ssh/authorized_keys
    dropbearKeys,  \* lines of /etc/dropbear/authorized_keys
    current,       \* local 'current' of each invocation
    found,         \* outcome of 'pubkey in current' of each invocation
    writeCmds,     \* remote write commands issued by each invocation
    added,         \* lines appended by each invocation's commands
    report,        \* what each invocation printed
    readFirst,     \* no write command had been issued when the invocation read
    doneAtStart,   \* invocations that had finished when this one started
    snapAtDone     \* remote store as it was when the invocation finished

hvars == <<pc, argc, clientCreated, connectCalls, sessionOpen, everConnected,
           closed, execCalls, cmdRan, remoteOut, remoteErr, remoteStatus,
           outRead, errRead, statusRead, out, err, exit_code, raised,
           procStdout, procStderr, diag, exitCode>>

kvars == <<kpc, pubkey, nvram, jffsDir, jffsWritable, dropbearWritable,
           jffsKeys, dropbearKeys, current, found, writeCmds, added, report,
           readFirst, doneAtStart, snapAtDone>>

vars == <<hvars, kvars>>

\* ---------------------------------------------------------------- bounds
MaxLen == 2        \* longest remote output, in bytes
MaxArgc == 6       \* largest len(sys.argv) considered
NumRuns == 2       \* invocations of add_key_nvram.py
MaxNvLen == 2      \* longest nvram value, in characters

\* ---------------------------------------------------------------- helpers
RECURSIVE SeqsUpTo(_, _)
SeqsUpTo(S, n) ==
    IF n = 0 THEN {<<>>}
    ELSE LET shorter == SeqsUpTo(S, n - 1)
         IN  shorter \cup {Append(s, x) : s \in {t \in shorter : Len(t) = n - 1}, x \in S}

NoExit == 0 - 1    \* exitCode while the process is still running

\* ------------------------------------------------------------------------
\* ssh-helper.py
\* ------------------------------------------------------------------------

\* Bytes a remote stream may carry: 'A', the two bytes of U+00E9, and 0xFF,
\* which no UTF-8 text contains.  No lead byte of a 3- or 4-byte form
\* (0xE0..0xF4) is in the alphabet, so UTF_8_decode needs only the 1- and
\* 2-byte forms.
Bytes == {65, 195, 169, 255}
ByteStrings == SeqsUpTo(Bytes, MaxLen)
Statuses == {0, 1, 7, 255}

IsAscii(b) == b < 128
IsLead2(b) == b >= 194 /\ b <= 223
IsCont(b) == b >= 128 /\ b <= 191

\* bytes.decode(): strict UTF-8.  The result is [ok, text]: ok is FALSE where
\* decode() raises UnicodeDecodeError.
RECURSIVE UTF_8_decode(_)
UTF_8_decode(bs) ==
    IF bs = <<>> THEN [ok |-> TRUE, text |-> <<>>]
    ELSE IF IsAscii(Head(bs)) THEN
        LET rest == UTF_8_decode(Tail(bs))
        IN  [ok |-> rest.ok, text |-> <<Head(bs)>> \o rest.text]
    ELSE IF IsLead2(Head(bs)) /\ Len(bs) >= 2 /\ IsCont(bs[2]) THEN
        LET rest == UTF_8_decode(Tail(Tail(bs)))
        IN  [ok |-> rest.ok,
             text |-> <<(Head(bs) - 192) * 64 + (bs[2] - 128)>> \o rest.text]
    ELSE [ok |-> FALSE, text |-> <<>>]

\* What print(text, end='') writes to a UTF-8 stream.
RECURSIVE UTF_8_encode(_)
UTF_8_encode(text) ==
    IF text = <<>> THEN <<>>
    ELSE (IF Head(text) < 128 THEN <<Head(text)>>
          ELSE <<192 + (Head(text) \div 64), 128 + (Head(text) % 64)>>)
         \o UTF_8_encode(Tail(text))

\* The exception classes the try block can raise, with their base classes.
Base(cls) ==
    CASE cls = "AuthenticationException" -> "SSHException"
      [] cls = "SSHException" -> "Exception"
      [] cls = "NoValidConnectionsError" -> "OSError"
      [] cls = "timeout" -> "OSError"
      [] cls = "OSError" -> "Exception"
      [] cls = "UnicodeDecodeError" -> "ValueError"
      [] cls = "ValueError" -> "Exception"
      [] OTHER -> "BaseException"

RECURSIVE IsInstance(_, _)
IsInstance(cls, of) ==
    \/ cls = of
    \/ cls # "BaseException" /\ IsInstance(Base(cls), of)

\* What client.connect and client.exec_command can raise.
ConnectRaises == {"AuthenticationException", "SSHException",
                  "NoValidConnectionsError", "timeout"}
ExecRaises == {"SSHException"}

\* The except clauses of main(), in order: the first matching clause runs.
ExceptClause(cls) ==
    IF IsInstance(cls, "AuthenticationException") THEN "Authentication failed"
    ELSE IF IsInstance(cls, "SSHException") THEN "SSH error"
    ELSE "Connection error"

\* The argument check taken one too low.
TooFewArgs_offByOne(n) == n < 4

\* len(sys.argv) < 5
TooFewArgs(n) == n < 5

InitHelper ==
    /\ pc = "start"
    /\ argc \in 1..MaxArgc
    /\ clientCreated = FALSE
    /\ connectCalls = 0
    /\ sessionOpen = FALSE
    /\ everConnected = FALSE
    /\ closed = FALSE
    /\ execCalls = 0
    /\ cmdRan = FALSE
    /\ remoteOut = <<>>
    /\ remoteErr = <<>>
    /\ remoteStatus = 0
    /\ outRead = FALSE
    /\ errRead = FALSE
    /\ statusRead = FALSE
    /\ out = <<>>
    /\ err = <<>>
    /\ exit_code = 0
    /\ raised = "none"
    /\ procStdout = <<>>
    /\ procStderr = <<>>
    /\ diag = <<>>
    /\ exitCode = NoExit

\* lines 7-14
CheckArgs ==
    /\ pc = "start"
    /\ IF TooFewArgs(argc)
       THEN /\ diag' = Append(diag, "Usage")
            /\ exitCode' = 1
            /\ pc' = "done"
       ELSE /\ pc' = "create"
            /\ UNCHANGED <<diag, exitCode>>
    /\ UNCHANGED <<argc, clientCreated, connectCalls, sessionOpen,
                   everConnected, closed, execCalls, cmdRan, remoteOut,
                   remoteErr, remoteStatus, outRead, errRead, statusRead,
                   out, err, exit_code, raised, procStdout, procStderr>>
    /\ UNCHANGED kvars

\* lines 17-18
CreateClient ==
    /\ pc = "create"
    /\ clientCreated' = TRUE
    /\ pc' = "connect"
    /\ UNCHANGED <<argc, connectCalls, sessionOpen, everConnected, closed,
                   execCalls, cmdRan, remoteOut, remoteErr, remoteStatus,
                   outRead, errRead, statusRead, out, err, exit_code, raised,
                   procStdout, procStderr, diag, exitCode>>
    /\ UNCHANGED kvars

\* line 19
Connect ==
    /\ pc = "connect"
    /\ connectCalls' = connectCalls + 1
    /\ \/ /\ sessionOpen' = TRUE
          /\ everConnected' = TRUE
          /\ pc' = "exec"
          /\ UNCHANGED raised
       \/ /\ \E cls \in ConnectRaises : raised' = cls
          /\ pc' = "except"
          /\ UNCHANGED <<sessionOpen, everConnected>>
    /\ UNCHANGED <<argc, clientCreated, closed, execCalls, cmdRan, remoteOut,
                   remoteErr, remoteStatus, outRead, errRead, statusRead,
                   out, err, exit_code, procStdout, procStderr, diag,
                   exitCode>>
    /\ UNCHANGED kvars

\* exec_command issued again after it raised.
ExecCommand_retry ==
    /\ pc = "exec"
    /\ execCalls < 3
    /\ execCalls' = execCalls + 1
    /\ \/ /\ cmdRan' = TRUE
          /\ remoteOut' \in ByteStrings
          /\ remoteErr' \in ByteStrings
          /\ remoteStatus' \in Statuses
          /\ pc' = "read_out"
       \/ /\ pc' = "exec"
          /\ UNCHANGED <<cmdRan, remoteOut, remoteErr, remoteStatus>>
    /\ UNCHANGED <<argc, clientCreated, connectCalls, sessionOpen,
                   everConnected, closed, outRead, errRead, statusRead, out,
                   err, exit_code, raised, procStdout, procStderr, diag,
                   exitCode>>
    /\ UNCHANGED kvars

\* line 21
ExecCommand ==
    /\ pc = "exec"
    /\ execCalls' = execCalls + 1
    /\ \/ /\ cmdRan' = TRUE
          /\ remoteOut' \in ByteStrings
          /\ remoteErr' \in ByteStrings
          /\ remoteStatus' \in Statuses
          /\ pc' = "read_out"
          /\ UNCHANGED raised
       \/ /\ \E cls \in ExecRaises : raised' = cls
          /\ pc' = "except"
          /\ UNCHANGED <<cmdRan, remoteOut, remoteErr, remoteStatus>>
    /\ UNCHANGED <<argc, clientCreated, connectCalls, sessionOpen,
                   everConnected, closed, outRead, errRead, statusRead, out,
                   err, exit_code, procStdout, procStderr, diag, exitCode>>
    /\ UNCHANGED kvars

\* line 22
ReadStdout ==
    /\ pc = "read_out"
    /\ outRead' = TRUE
    /\ IF UTF_8_decode(remoteOut).ok
       THEN /\ out' = UTF_8_decode(remoteOut).text
            /\ pc' = "read_err"
            /\ UNCHANGED raised
       ELSE /\ raised' = "UnicodeDecodeError"
            /\ pc' = "except"
            /\ UNCHANGED out
    /\ UNCHANGED <<argc, clientCreated, connectCalls, sessionOpen,
                   everConnected, closed, execCalls, cmdRan, remoteOut,
                   remoteErr, remoteStatus, errRead, statusRead, err,
                   exit_code, procStdout, procStderr, diag, exitCode>>
    /\ UNCHANGED kvars

\* The exit status awaited without reading stderr first.
ReadStderr_skipped ==
    /\ pc = "read_err"
    /\ pc' = "status"
    /\ UNCHANGED <<argc, clientCreated, connectCalls, sessionOpen,
                   everConnected, closed, execCalls, cmdRan, remoteOut,
                   remoteErr, remoteStatus, outRead, errRead, statusRead,
                   out, err, exit_code, raised, procStdout, procStderr, diag,
                   exitCode>>
    /\ UNCHANGED kvars

\* line 23
ReadStderr ==
    /\ pc = "read_err"
    /\ errRead' = TRUE
    /\ IF UTF_8_decode(remoteErr).ok
       THEN /\ err' = UTF_8_decode(remoteErr).text
            /\ pc' = "status"
            /\ UNCHANGED raised
       ELSE /\ raised' = "UnicodeDecodeError"
            /\ pc' = "except"
            /\ UNCHANGED err
    /\ UNCHANGED <<argc, clientCreated, connectCalls, sessionOpen,
                   everConnected, closed, execCalls, cmdRan, remoteOut,
                   remoteErr, remoteStatus, outRead, statusRead, out,
                   exit_code, procStdout, procStderr, diag, exitCode>>
    /\ UNCHANGED kvars

\* line 24
RecvExitStatus ==
    /\ pc = "status"
    /\ statusRead' = TRUE
    /\ exit_code' = remoteStatus
    /\ pc' = "close"
    /\ UNCHANGED <<argc, clientCreated, connectCalls, sessionOpen,
                   everConnected, closed, execCalls, cmdRan, remoteOut,
                   remoteErr, remoteStatus, outRead, errRead, out, err,
                   raised, procStdout, procStderr, diag, exitCode>>
    /\ UNCHANGED kvars

\* line 26
Close ==
    /\ pc = "close"
    /\ sessionOpen' = FALSE
    /\ closed' = TRUE
    /\ pc' = "relay"
    /\ UNCHANGED <<argc, clientCreated, connectCalls, everConnected,
                   execCalls, cmdRan, remoteOut, remoteErr, remoteStatus,
                   outRead, errRead, statusRead, out, err, exit_code, raised,
                   procStdout, procStderr, diag, exitCode>>
    /\ UNCHANGED kvars

\* lines 28-30
Relay ==
    /\ pc = "relay"
    /\ procStdout' = procStdout \o UTF_8_encode(out)
    /\ procStderr' = IF err # <<>> THEN procStderr \o UTF_8_encode(err)
                     ELSE procStderr
    /\ pc' = "exit"
    /\ UNCHANGED <<argc, clientCreated, connectCalls, sessionOpen,
                   everConnected, closed, execCalls, cmdRan, remoteOut,
                   remoteErr, remoteStatus, outRead, errRead, statusRead,
                   out, err, exit_code, raised, diag, exitCode>>
    /\ UNCHANGED kvars

\* line 32: SystemExit is no Exception, so no except clause catches it
Exit ==
    /\ pc = "exit"
    /\ exitCode' = exit_code
    /\ pc' = "done"
    /\ UNCHANGED <<argc, clientCreated, connectCalls, sessionOpen,
                   everConnected, closed, execCalls, cmdRan, remoteOut,
                   remoteErr, remoteStatus, outRead, errRead, statusRead,
                   out, err, exit_code, raised, procStdout, procStderr,
                   diag>>
    /\ UNCHANGED kvars

\* lines 33-41
Except ==
    /\ pc = "except"
    /\ diag' = Append(diag, ExceptClause(raised))
    /\ exitCode' = 255
    /\ pc' = "done"
    /\ UNCHANGED <<argc, clientCreated, connectCalls, sessionOpen,
                   everConnected, closed, execCalls, cmdRan, remoteOut,
                   remoteErr, remoteStatus, outRead, errRead, statusRead,
                   out, err, exit_code, raised, procStdout, procStderr>>
    /\ UNCHANGED kvars

Next ==
    \/ CheckArgs
    \/ CreateClient
    \/ Connect
    \/ ExecCommand
    \/ ReadStdout
    \/ ReadStderr
    \/ RecvExitStatus
    \/ Close
    \/ Relay
    \/ Exit
    \/ Except

\* ------------------------------------------------------------------------
\* add_key_nvram.py
\* ------------------------------------------------------------------------

Runs == 1..NumRuns

\* Characters of the strings involved: newline and two key characters.
NL == 10
Chars == {NL, 97, 98}
IsSpace(c) == c = NL

\* Contents of id_rsa.pub and values of the nvram variable sshd_authkeys.
KeyFiles == {<<97, 98, NL>>}
NvramValues == SeqsUpTo(Chars, MaxNvLen)

\* str.strip()
RECURSIVE LStrip(_)
LStrip(s) == IF s # <<>> /\ IsSpace(Head(s)) THEN LStrip(Tail(s)) ELSE s

RECURSIVE RStrip(_)
RStrip(s) ==
    IF s # <<>> /\ IsSpace(s[Len(s)]) THEN RStrip(SubSeq(s, 1, Len(s) - 1))
    ELSE s

Strip(s) == RStrip(LStrip(s))

\* t in s, on strings
Contains(s, t) ==
    \E i \in 0..(Len(s) - Len(t)) : SubSeq(s, i + 1, i + Len(t)) = t

\* The remote file system as the append commands see it.
Store == [dir |-> jffsDir, writable |-> jffsWritable, keys |-> jffsKeys]

\* The echo made conditional on the key not being in the file yet.
RunCmd_ifAbsent(cmd, fs, key) ==
    IF cmd = "echo"
    THEN IF fs.dir /\ fs.writable
         THEN [fs |-> [fs EXCEPT !.keys =
                          IF \E i \in 1..Len(fs.keys) : fs.keys[i] = key
                          THEN fs.keys ELSE Append(fs.keys, key)],
               status |-> 0]
         ELSE [fs |-> fs, status |-> 1]
    ELSE IF fs.dir \/ fs.writable
         THEN [fs |-> [fs EXCEPT !.dir = TRUE], status |-> 0]
         ELSE [fs |-> fs, status |-> 1]

\* One simple command of the list of line 16, run on file system fs:
\*   echo "{pubkey}" >> /jffs/.ssh/authorized_keys     mkdir -p /jffs/.ssh
\* The result is the file system after it and the command's exit status.
RunCmd(cmd, fs, key) ==
    IF cmd = "echo"
    THEN IF fs.dir /\ fs.writable
         THEN [fs |-> [fs EXCEPT !.keys = Append(fs.keys, key)], status |-> 0]
         ELSE [fs |-> fs, status |-> 1]
    ELSE IF fs.dir \/ fs.writable
         THEN [fs |-> [fs EXCEPT !.dir = TRUE], status |-> 0]
         ELSE [fs |-> fs, status |-> 1]

\* The command line of line 16:  echo ... || mkdir -p ... && echo ...
JffsCommand ==
    << [op |-> ";", cmd |-> "echo"],
       [op |-> "||", cmd |-> "mkdir"],
       [op |-> "&&", cmd |-> "echo"] >>

\* The shell runs an and-or list from left to right, || and && having the
\* same precedence: a command after || runs when the status so far is not 0,
\* a command after && when it is 0.
RECURSIVE RunAndOr(_, _, _, _, _)
RunAndOr(list, i, status, fs, key) ==
    IF i > Len(list) THEN fs
    ELSE IF \/ list[i].op = ";"
            \/ list[i].op = "||" /\ status # 0
            \/ list[i].op = "&&" /\ status = 0
         THEN LET r == RunCmd(list[i].cmd, fs, key)
              IN  RunAndOr(list, i + 1, r.status, r.fs, key)
         ELSE RunAndOr(list, i + 1, status, fs, key)

\* pubkey in current (line 12)
KeyPresent(key, cur) == Contains(cur, key)

TotalWrites == LET RECURSIVE Sum(_)
                   Sum(n) == IF n = 0 THEN 0 ELSE writeCmds[n] + Sum(n - 1)
               IN  Sum(NumRuns)

InitKey ==
    /\ kpc = [p \in Runs |-> "connect"]
    /\ \E f \in KeyFiles : pubkey = Strip(f)
    /\ \E v \in NvramValues : nvram = v \o <<NL>>
    /\ jffsDir \in BOOLEAN
    /\ jffsWritable \in BOOLEAN
    /\ dropbearWritable \in BOOLEAN
    /\ jffsKeys = <<>>
    /\ dropbearKeys = <<>>
    /\ current = [p \in Runs |-> <<>>]
    /\ found = [p \in Runs |-> FALSE]
    /\ writeCmds = [p \in Runs |-> 0]
    /\ added = [p \in Runs |-> [jffs |-> 0, dropbear |-> 0]]
    /\ report = [p \in Runs |-> "none"]
    /\ readFirst = [p \in Runs |-> FALSE]
    /\ doneAtStart = [p \in Runs |-> {}]
    /\ snapAtDone = [p \in Runs |-> <<>>]

\* lines 3-6; an exception of connect is not caught and ends the script
KeyConnect(p) ==
    /\ kpc[p] = "connect"
    /\ \/ kpc' = [kpc EXCEPT ![p] = "get"]
       \/ kpc' = [kpc EXCEPT ![p] = "crashed"]
    /\ doneAtStart' = [doneAtStart EXCEPT ![p] = {q \in Runs : kpc[q] = "done"}]
    /\ UNCHANGED <<pubkey, nvram, jffsDir, jffsWritable, dropbearWritable,
                   jffsKeys, dropbearKeys, current, found, writeCmds, added,
                   report, readFirst, snapAtDone>>
    /\ UNCHANGED hvars

\* lines 9-13: the remote read, then the local presence check
GetKeys(p) ==
    /\ kpc[p] = "get"
    /\ current' = [current EXCEPT ![p] = Strip(nvram)]
    /\ readFirst' = [readFirst EXCEPT ![p] = (TotalWrites = 0)]
    /\ found' = [found EXCEPT ![p] = KeyPresent(pubkey, Strip(nvram))]
    /\ IF KeyPresent(pubkey, Strip(nvram))
       THEN /\ report' = [report EXCEPT ![p] = "already"]
            /\ kpc' = [kpc EXCEPT ![p] = "close"]
       ELSE /\ kpc' = [kpc EXCEPT ![p] = "append_jffs"]
            /\ UNCHANGED report
    /\ UNCHANGED <<pubkey, nvram, jffsDir, jffsWritable, dropbearWritable,
                   jffsKeys, dropbearKeys, writeCmds, added, doneAtStart,
                   snapAtDone>>
    /\ UNCHANGED hvars

\* lines 16-18: the remote shell runs the whole command line
AppendJffs(p) ==
    /\ kpc[p] = "append_jffs"
    /\ LET fs == RunAndOr(JffsCommand, 1, 0, Store, pubkey)
       IN  /\ jffsDir' = fs.dir
           /\ jffsKeys' = fs.keys
           /\ added' = [added EXCEPT ![p].jffs = @ + Len(fs.keys) - Len(jffsKeys)]
    /\ writeCmds' = [writeCmds EXCEPT ![p] = @ + 1]
    /\ kpc' = [kpc EXCEPT ![p] = "append_dropbear"]
    /\ UNCHANGED <<pubkey, nvram, jffsWritable, dropbearWritable,
                   dropbearKeys, current, found, report, readFirst,
                   doneAtStart, snapAtDone>>
    /\ UNCHANGED hvars

\* lines 21-24
AppendDropbear(p) ==
    /\ kpc[p] = "append_dropbear"
    /\ IF dropbearWritable
       THEN /\ dropbearKeys' = Append(dropbearKeys, pubkey)
            /\ added' = [added EXCEPT ![p].dropbear = @ + 1]
       ELSE UNCHANGED <<dropbearKeys, added>>
    /\ writeCmds' = [writeCmds EXCEPT ![p] = @ + 1]
    /\ report' = [report EXCEPT ![p] = "added"]
    /\ kpc' = [kpc EXCEPT ![p] = "close"]
    /\ UNCHANGED <<pubkey, nvram, jffsDir, jffsWritable, dropbearWritable,
                   jffsKeys, current, found, readFirst, doneAtStart,
                   snapAtDone>>
    /\ UNCHANGED hvars

\* line 26
KeyClose(p) ==
    /\ kpc[p] = "close"
    /\ kpc' = [kpc EXCEPT ![p] = "done"]
    /\ snapAtDone' = [snapAtDone EXCEPT ![p] = <<nvram, jffsKeys, dropbearKeys>>]
    /\ UNCHANGED <<pubkey, nvram, jffsDir, jffsWritable, dropbearWritable,
                   jffsKeys, dropbearKeys, current, found, writeCmds, added,
                   report, readFirst, doneAtStart>>
    /\ UNCHANGED hvars

NextK ==
    \/ \E p \in Runs : KeyConnect(p)
    \/ \E p \in Runs : GetKeys(p)
    \/ \E p \in Runs : AppendJffs(p)
    \/ \E p \in Runs : AppendDropbear(p)
    \/ \E p \in Runs : KeyClose(p)

\* ------------------------------------------------------------------------
\* Specifications
\* ------------------------------------------------------------------------

\* The helper's variables while the key script runs.
HelperIdle ==
    /\ InitHelper
    /\ argc = 1

\* The key script's variables while the helper runs.
KeyIdle ==
    /\ InitKey
    /\ pubkey = <<97, 98>>
    /\ nvram = <<NL>>
    /\ ~jffsDir /\ ~jffsWritable /\ ~dropbearWritable

Init == InitHelper /\ KeyIdle
Spec == Init /\ [][Next]_vars

InitK == InitKey /\ HelperIdle
SpecKey == InitK /\ [][NextK]_vars

\* ------------------------------------------------------------------------
\* Properties of ssh-helper.py (checked under Spec)
\* ------------------------------------------------------------------------

\* The three error kinds of the error taxonomy, by exception class.
ErrorKind(cls) ==
    IF cls = "AuthenticationException" THEN "AuthError"
    ELSE IF IsInstance(cls, "SSHException") THEN "ProtocolError"
    ELSE IF IsInstance(cls, "OSError") THEN "ConnectionError"
    ELSE "none"

\* C1: whenever connect and exec_command succeeded and the remote command
\* finished with exit status s, the process terminates with exit code s.
C1_ExitStatusForwarded ==
    (pc = "done" /\ cmdRan) => exitCode = remoteStatus

\* C2: every invocation that fails exits with 255 and prints exactly one
\* diagnostic, the one of its error kind; a failure after the connection was
\* established is not reported as a connection error.
C2_DiagnosticMatchesKind ==
    (pc = "done" /\ raised # "none") =>
        /\ exitCode = 255
        /\ Len(diag) = 1
        /\ ErrorKind(raised) = "AuthError" => diag[1] = "Authentication failed"
        /\ ErrorKind(raised) = "ProtocolError" => diag[1] = "SSH error"
        /\ ErrorKind(raised) = "ConnectionError" => diag[1] = "Connection error"
        /\ everConnected => diag[1] # "Connection error"

\* C3: with fewer than 4 arguments no SSH client is created and no connect
\* is attempted, and the run ends with the usage message and exit code 1.
C3_UsageWithoutConnecting ==
    (argc - 1 < 4) =>
        /\ ~clientCreated
        /\ connectCalls = 0
        /\ pc \in {"start", "done"}
        /\ pc = "done" => (exitCode = 1 /\ diag = <<"Usage">>)

C3_Witness ==
    argc - 1 = 3 /\ pc = "done" /\ exitCode = 1 /\ diag = <<"Usage">>

\* C4: a session opened by a successful connect has been closed when the
\* process terminates, on every path.
C4_SessionClosedOnExit ==
    (pc = "done" /\ everConnected) => (closed /\ ~sessionOpen)

\* C6: the exit status is read only after both stdout and stderr have been
\* read to end-of-stream.
C6_StatusAfterDrain ==
    statusRead => (outRead /\ errRead)

C6_Witness ==
    statusRead /\ outRead /\ errRead /\ remoteOut # <<>> /\ remoteErr # <<>>

\* C7: whenever the command ran, the process has written to its stdout
\* exactly the remote stdout, to its stderr exactly the remote stderr, and
\* nothing to stderr when the remote stderr is empty.
C7_StreamsRelayedVerbatim ==
    (pc = "done" /\ cmdRan) =>
        /\ procStdout = remoteOut
        /\ procStderr = remoteErr
        /\ remoteErr = <<>> => (procStderr = <<>> /\ diag = <<>>)

\* C8: the command is issued at most once; a terminated invocation has
\* issued it exactly once if connect succeeded and not at all otherwise.
C8_CommandIssuedOnce ==
    /\ execCalls <= 1
    /\ ~everConnected => execCalls = 0
    /\ pc = "done" => execCalls = (IF everConnected THEN 1 ELSE 0)

C8_Witness ==
    pc = "done" /\ everConnected /\ cmdRan /\ execCalls = 1

\* ------------------------------------------------------------------------
\* Properties of add_key_nvram.py (checked under SpecKey)
\* ------------------------------------------------------------------------

RECURSIVE Count(_, _)
Count(lines, key) ==
    IF lines = <<>> THEN 0
    ELSE (IF Head(lines) = key THEN 1 ELSE 0) + Count(Tail(lines), key)

\* C5: a run started after another run has finished (having found the key
\* or added it) leaves the remote state as that run left it: it finds the
\* key, issues no append and reports that the key is already present.
C5_SecondRunIsNoOp ==
    \A p, q \in Runs :
        (/\ p # q
         /\ kpc[q] = "done"
         /\ p \in doneAtStart[q]
         /\ (found[p] \/ added[p].jffs >= 1)) =>
            /\ snapAtDone[q] = snapAtDone[p]
            /\ found[q]
            /\ writeCmds[q] = 0
            /\ report[q] = "already"

\* C9: two invocations that both read the store before any write, the key
\* not being in it, both pass the check and both append: the key ends up
\* in the files more than once.
C9_BothAppend ==
    \A p, q \in Runs :
        (/\ p # q
         /\ kpc[p] = "done" /\ kpc[q] = "done"
         /\ readFirst[p] /\ readFirst[q]
         /\ ~Contains(nvram, pubkey)) =>
            /\ ~found[p] /\ ~found[q]
            /\ writeCmds[p] = 2 /\ writeCmds[q] = 2
            /\ jffsWritable => Count(jffsKeys, pubkey) >= 2
            /\ dropbearWritable => Count(dropbearKeys, pubkey) >= 2

C9_Witness ==
    \E p, q \in Runs :
        /\ p # q
        /\ kpc[p] = "done" /\ kpc[q] = "done"
        /\ readFirst[p] /\ readFirst[q]
        /\ ~found[p] /\ ~found[q]
        /\ Count(jffsKeys, pubkey) >= 2

\* C10: a run that does not find the key adds exactly one copy of it to
\* /jffs/.ssh/authorized_keys (/jffs being writable) and at most one to
\* /etc/dropbear/authorized_keys, whether or not the first echo succeeds;
\* a run that finds the key issues no write command.
C10_ExactlyOneCopy ==
    \A p \in Runs :
        kpc[p] = "done" =>
            IF found[p] THEN writeCmds[p] = 0
            ELSE /\ jffsWritable => added[p].jffs = 1
                 /\ added[p].dropbear <= 1


====
